---- MODULE Spec2Model ----
(***************************************************************************)
(* A model of the contact manager of src/classes.py (Field validators,     *)
(* Record, AddressBook, the upcoming-birthday query) and of the `add` and  *)
(* `change` commands of src/main.py.                                       *)
(*                                                                         *)
(* Python strings are sequences of one-character strings.  An operation    *)
(* that may raise returns [err |-> "" | "ValueError", val |-> ...].        *)
(* Record objects live in `heap` and are named by their index, so that two *)
(* references to one Record see the same phones.                           *)
(***************************************************************************)
EXTENDS Integers, Sequences, FiniteSets, TLC

VARIABLES
    heap,   \* the Record objects, by id
    book,   \* AddressBook.data
    last,   \* the last operation and its outcome
    prev    \* history: AddressBook.data as it was before the last operation

vars == <<heap, book, last, prev>>

\* The phones of one Record under SpecRecord and SpecCli.
MaxPhones == 2

\* The Record objects constructed and the phones of one Record under Spec.
BookRecords == 3

BookPhones == 1

\* The Record objects constructed under SpecOrder.
OrderRecords == 2

\* Python's None.
None == <<>>

\* What evaluating an expression gives: a value, or a raised exception `err`
\* with its message.
Ok(v) == [err |-> "", msg |-> "", val |-> v]

Raise(e, m) == [err |-> e, msg |-> m, val |-> None]

\* What calling a method gives: the same, and the object as the call left it.
Return(self, v) == [err |-> "", msg |-> "", val |-> v, self |-> self]

Throw(self, e, m) == [err |-> e, msg |-> m, val |-> None, self |-> self]

(***************************************************************************)
(* Strings                                                                 *)
(***************************************************************************)

AsciiDigits == <<"0", "1", "2", "3", "4", "5", "6", "7", "8", "9">>

\* Characters for which str.isdigit() is true: the ASCII digits and the other
\* Unicode digits, here U+00B2 SUPERSCRIPT TWO (written "^2").
IsDigitChar(c) == (\E i \in 1..10 : AsciiDigits[i] = c) \/ c = "^2"

\* Characters str.strip() removes.
IsSpaceChar(c) == c \in {" ", "\t", "\n"}

RECURSIVE lstrip(_)
lstrip(s) ==
    IF s # <<>> /\ IsSpaceChar(Head(s)) THEN lstrip(Tail(s)) ELSE s

RECURSIVE rstrip(_)
rstrip(s) ==
    IF s # <<>> /\ IsSpaceChar(s[Len(s)])
    THEN rstrip(SubSeq(s, 1, Len(s) - 1))
    ELSE s

strip(s) == rstrip(lstrip(s))

isdigit(s) == s # <<>> /\ \A i \in 1..Len(s) : IsDigitChar(s[i])

(***************************************************************************)
(* Name and Phone                                                          *)
(***************************************************************************)

\* Name.__init__: the stripped value, ValueError when it is empty.
Name(value) ==
    LET name == strip(value)
    IN  IF name = <<>>
        THEN Raise("ValueError", "Contact name is mandatory and cannot be empty.")
        ELSE Ok(name)

PhoneLen == 10

\* Phone.__init__: the stripped value, ValueError unless isdigit and length 10.
Phone(value) ==
    LET phone_str == strip(value)
    IN  IF ~(isdigit(phone_str) /\ Len(phone_str) = PhoneLen)
        THEN Raise("ValueError", "Phone number must contain exactly 10 digits.")
        ELSE Ok(phone_str)

(***************************************************************************)
(* Calendar: a datetime is [year, month, day, tick], tick the time of day  *)
(* in units of 1/TicksPerDay of a day (tick 0 is midnight).                *)
(***************************************************************************)

TicksPerDay == 2

IsLeap(y) == y % 4 = 0 /\ (y % 100 # 0 \/ y % 400 = 0)

DaysInMonth(y, m) ==
    IF m = 2 THEN (IF IsLeap(y) THEN 29 ELSE 28)
    ELSE IF m \in {4, 6, 9, 11} THEN 30 ELSE 31

\* The fields datetime(...) and datetime.replace(...) accept.
ValidDate(y, m, d) ==
    /\ y \in 1..9999
    /\ m \in 1..12
    /\ d >= 1
    /\ d <= DaysInMonth(y, m)

RECURSIVE DaysBeforeMonth(_, _)
DaysBeforeMonth(y, m) ==
    IF m = 1 THEN 0 ELSE DaysBeforeMonth(y, m - 1) + DaysInMonth(y, m - 1)

\* date.toordinal(): 0001-01-01 is day 1.
toordinal(dt) ==
    LET y == dt.year - 1
    IN  y * 365 + (y \div 4) - (y \div 100) + (y \div 400)
          + DaysBeforeMonth(dt.year, dt.month) + dt.day

\* date.weekday(): Monday is 0, Sunday is 6.
weekday(dt) == (toordinal(dt) + 6) % 7

\* The position of a datetime on the time line, in ticks; datetimes compare
\* as their positions do.
Ticks(dt) == toordinal(dt) * TicksPerDay + dt.tick

\* (a - b).days: timedelta normalises to whole days rounded down.
DeltaDays(a, b) == (Ticks(a) - Ticks(b)) \div TicksPerDay

\* datetime.replace(year=y): ValueError when the result is no date.
replace_year(dt, y) ==
    IF ValidDate(y, dt.month, dt.day)
    THEN Ok([dt EXCEPT !.year = y])
    ELSE Raise("ValueError", "")

\* datetime.replace(day=d): ValueError when the result is no date.
replace_day(dt, d) ==
    IF ValidDate(dt.year, dt.month, d)
    THEN Ok([dt EXCEPT !.day = d])
    ELSE Raise("ValueError", "")

(***************************************************************************)
(* strptime / strftime                                                     *)
(***************************************************************************)

DigitVal(c) == (CHOOSE i \in 1..10 : AsciiDigits[i] = c) - 1

IsAsciiDigits(s) ==
    s # <<>> /\ \A i \in 1..Len(s) : \E k \in 1..10 : AsciiDigits[k] = s[i]

RECURSIVE ToInt(_)
ToInt(s) ==
    IF s = <<>> THEN 0
    ELSE ToInt(SubSeq(s, 1, Len(s) - 1)) * 10 + DigitVal(s[Len(s)])

\* str.split("-")
RECURSIVE SplitDash(_)
SplitDash(s) ==
    IF \A i \in 1..Len(s) : s[i] # "-" THEN <<s>>
    ELSE LET k == CHOOSE i \in 1..Len(s) :
                      s[i] = "-" /\ \A j \in 1..(i - 1) : s[j] # "-"
         IN  <<SubSeq(s, 1, k - 1)>> \o SplitDash(SubSeq(s, k + 1, Len(s)))

\* The directives of _strptime: %Y is exactly four digits; %m is 1..12 and %d
\* is 1..31, each written with one or two digits.
MatchY(f) == Len(f) = 4 /\ IsAsciiDigits(f)

MatchM(f) == Len(f) \in {1, 2} /\ IsAsciiDigits(f) /\ ToInt(f) \in 1..12

MatchD(f) == Len(f) \in {1, 2} /\ IsAsciiDigits(f) /\ ToInt(f) \in 1..31

\* datetime.strptime(s, fmt) for the three formats of the program, each three
\* fields joined by "-"; ValueError when the text does not match the format
\* or the fields are no calendar date.
strptime(s, fmt) ==
    LET f == SplitDash(s)
    IN  IF Len(f) # 3 THEN Raise("ValueError", "")
        ELSE LET iy == IF fmt = "%Y-%m-%d" THEN 1 ELSE 3
                 im == IF fmt = "%m-%d-%Y" THEN 1 ELSE 2
                 id == IF fmt = "%Y-%m-%d" THEN 3
                       ELSE IF fmt = "%d-%m-%Y" THEN 1 ELSE 2
             IN  IF ~(MatchY(f[iy]) /\ MatchM(f[im]) /\ MatchD(f[id]))
                 THEN Raise("ValueError", "")
                 ELSE IF ~ValidDate(ToInt(f[iy]), ToInt(f[im]), ToInt(f[id]))
                 THEN Raise("ValueError", "")
                 ELSE Ok([year |-> ToInt(f[iy]), month |-> ToInt(f[im]),
                          day |-> ToInt(f[id]), tick |-> 0])

Digit(n) == AsciiDigits[n + 1]

Pad2(n) == <<Digit(n \div 10), Digit(n % 10)>>

Pad4(n) ==
    <<Digit(n \div 1000), Digit((n \div 100) % 10),
      Digit((n \div 10) % 10), Digit(n % 10)>>

\* strftime("%Y-%m-%d")
strftime_Ymd(dt) == Pad4(dt.year) \o <<"-">> \o Pad2(dt.month) \o <<"-">> \o Pad2(dt.day)

\* strftime("%d.%m.%Y")
strftime_dmY(dt) == Pad2(dt.day) \o <<".">> \o Pad2(dt.month) \o <<".">> \o Pad4(dt.year)

(***************************************************************************)
(* Birthday                                                                *)
(***************************************************************************)

\* The character class of the regular expression of _standardize_date_format.
IsDelimiter(c) ==
    c \in {" ", "-", "/", ".", "\\", ",", "\t", "\n", "(", ")", "[", "]", "{", "}"}

RECURSIVE SkipDelimiters(_)
SkipDelimiters(s) ==
    IF s # <<>> /\ IsDelimiter(Head(s)) THEN SkipDelimiters(Tail(s)) ELSE s

\* re.sub(r'[...]+', '-', s): every run of delimiters becomes one "-".
RECURSIVE SubDelimiters(_)
SubDelimiters(s) ==
    IF s = <<>> THEN <<>>
    ELSE IF IsDelimiter(Head(s))
    THEN <<"-">> \o SubDelimiters(SkipDelimiters(s))
    ELSE <<Head(s)>> \o SubDelimiters(Tail(s))

RECURSIVE StripDash(_)
StripDash(s) ==
    IF s # <<>> /\ Head(s) = "-" THEN StripDash(Tail(s))
    ELSE IF s # <<>> /\ s[Len(s)] = "-" THEN StripDash(SubSeq(s, 1, Len(s) - 1))
    ELSE s

formats_to_try == <<"%Y-%m-%d", "%d-%m-%Y", "%m-%d-%Y">>

\* Birthday._standardize_date_format: the first format that parses wins.
standardize_date_format(date_string) ==
    LET standardized == StripDash(SubDelimiters(date_string))
        fits == {i \in 1..Len(formats_to_try) :
                     strptime(standardized, formats_to_try[i]).err = ""}
    IN  IF fits = {} THEN Raise("ValueError", "Unable to parse date format")
        ELSE LET first == CHOOSE i \in fits : \A j \in fits : i <= j
             IN  Ok(strftime_Ymd(strptime(standardized, formats_to_try[first]).val))

\* Birthday.__init__: the canonical YYYY-MM-DD text, or ValueError.
Birthday(value) ==
    LET std == standardize_date_format(strip(value))
    IN  IF std.err # "" THEN std
        ELSE IF strptime(std.val, "%Y-%m-%d").err # ""
        THEN Raise("ValueError", "Invalid birthday format.")
        ELSE Ok(std.val)

\* Birthday.display_format: DD.MM.YYYY, the stored value when it does not parse.
display_format(value) ==
    LET p == strptime(value, "%Y-%m-%d")
    IN  IF p.err = "" THEN strftime_dmY(p.val) ELSE value

(***************************************************************************)
(* Record                                                                  *)
(***************************************************************************)

\* Record.__init__: a record with no phones and no birthday.  `birthday` is
\* <<>> for None and <<value>> for a Birthday object.
Record(name) ==
    LET n == Name(name)
    IN  IF n.err # "" THEN n
        ELSE Ok([name |-> n.val, phones |-> <<>>, birthday |-> <<>>])

\* Mutant of Record_add_phone: the text is appended before it is validated.
Record_add_phone_append_first(self, phone) ==
    LET p == Phone(phone)
        appended == [self EXCEPT !.phones = Append(@, strip(phone))]
    IN  IF p.err # "" THEN Throw(appended, p.err, p.msg)
        ELSE Return(appended, None)

\* Record.add_phone: Phone(phone) is evaluated before the append.
Record_add_phone(self, phone) ==
    LET p == Phone(phone)
    IN  IF p.err # "" THEN Throw(self, p.err, p.msg)
        ELSE Return([self EXCEPT !.phones = Append(@, p.val)], None)

\* Record.add_birthday: Birthday(birthday) is evaluated before the assignment.
Record_add_birthday(self, birthday) ==
    LET b == Birthday(birthday)
    IN  IF b.err # "" THEN Throw(self, b.err, b.msg)
        ELSE Return([self EXCEPT !.birthday = <<b.val>>], None)

\* Mutant of find_phone: the last phone whose value is `phone`.
find_phone_last(self, phone) ==
    LET hits == {i \in 1..Len(self.phones) : self.phones[i] = phone}
    IN  IF hits = {} THEN 0 ELSE CHOOSE i \in hits : \A j \in hits : i >= j

\* Record.find_phone: the position of the first phone whose value is
\* `phone`, 0 for None.
find_phone(self, phone) ==
    LET hits == {i \in 1..Len(self.phones) : self.phones[i] = phone}
    IN  IF hits = {} THEN 0 ELSE CHOOSE i \in hits : \A j \in hits : i <= j

\* Record.edit_phone: the new value is assigned as given, without Phone(...).
Record_edit_phone(self, old_phone, new_phone) ==
    LET phone_to_edit == find_phone(self, old_phone)
    IN  IF phone_to_edit # 0
        THEN Return([self EXCEPT !.phones[phone_to_edit] = new_phone], None)
        ELSE Throw(self, "ValueError", "Phone number not found.")

RECURSIVE Without(_, _)
Without(phones, phone) ==
    IF phones = <<>> THEN <<>>
    ELSE IF Head(phones) # phone
    THEN <<Head(phones)>> \o Without(Tail(phones), phone)
    ELSE Without(Tail(phones), phone)

\* Record.remove_phone
Record_remove_phone(self, phone) ==
    Return([self EXCEPT !.phones = Without(@, phone)], None)

(***************************************************************************)
(* AddressBook: `book` is the dict `data` in insertion order, a sequence   *)
(* of [key, rid] with distinct keys.                                       *)
(***************************************************************************)

KeyIndex(data, name) ==
    IF \E i \in 1..Len(data) : data[i].key = name
    THEN CHOOSE i \in 1..Len(data) : data[i].key = name
    ELSE 0

\* Mutant of SetItem: dict.setdefault, a present key keeps its record.
SetItem_setdefault(data, key, rid) ==
    IF KeyIndex(data, key) # 0
    THEN data
    ELSE Append(data, [key |-> key, rid |-> rid])

\* dict.__setitem__: a present key keeps its position, a new key goes last.
SetItem(data, key, rid) ==
    IF KeyIndex(data, key) # 0
    THEN [data EXCEPT ![KeyIndex(data, key)].rid = rid]
    ELSE Append(data, [key |-> key, rid |-> rid])

\* dict.__delitem__
DelItem(data, key) ==
    LET i == KeyIndex(data, key)
    IN  SubSeq(data, 1, i - 1) \o SubSeq(data, i + 1, Len(data))

\* AddressBook.add_record: self.data[record.name.value] = record
AddressBook_add_record(data, records, r) == SetItem(data, records[r].name, r)

\* AddressBook.find: the record's id, 0 for None.
AddressBook_find(data, name) ==
    IF KeyIndex(data, name) # 0 THEN data[KeyIndex(data, name)].rid ELSE 0

\* AddressBook.delete
AddressBook_delete(data, name) ==
    IF KeyIndex(data, name) # 0 THEN DelItem(data, name) ELSE data

(***************************************************************************)
(* The upcoming-birthday query                                             *)
(***************************************************************************)

\* The weekend branch: replace(day=day + 7 - weekday) for Saturday and Sunday.
adjust_weekend(next_birthday) ==
    IF weekday(next_birthday) \in {5, 6}
    THEN replace_day(next_birthday,
                     next_birthday.day + (7 - weekday(next_birthday)))
    ELSE Ok(next_birthday)

\* Mutant of has_passed: a weekend birthday has passed once its Monday has.
has_passed_after_monday(next_birthday, today) ==
    LET monday == adjust_weekend(next_birthday)
    IN  IF monday.err = "" THEN Ticks(monday.val) < Ticks(today)
        ELSE Ticks(next_birthday) < Ticks(today)

\* `if next_birthday < today`
has_passed(next_birthday, today) == Ticks(next_birthday) < Ticks(today)

\* `if 0 <= delta <= 7`
in_next_week(delta) == 0 <= delta /\ delta <= 7

\* The try block of get_upcoming_birthdays for one stored birthday value:
\* the shifted next birthday, or the ValueError raised on the way.
next_birthday_of(value, today) ==
    LET birthday == strptime(value, "%Y-%m-%d")
    IN  IF birthday.err # "" THEN birthday
    ELSE
    LET this_year == replace_year(birthday.val, today.year)
    IN  IF this_year.err # "" THEN this_year
    ELSE
    LET next_birthday ==
            IF has_passed(this_year.val, today)
            THEN replace_year(this_year.val, today.year + 1)
            ELSE this_year
    IN  IF next_birthday.err # "" THEN next_birthday
        ELSE adjust_weekend(next_birthday.val)

\* The body of the loop for one record: the entry appended, as a sequence of
\* zero or one entries.  A ValueError inside the try block skips the record.
upcoming_entry(name, record, today) ==
    IF record.birthday = <<>> THEN <<>>
    ELSE
    LET next_birthday == next_birthday_of(record.birthday[1], today)
    IN  IF next_birthday.err # "" THEN <<>>
        ELSE IF in_next_week(DeltaDays(next_birthday.val, today))
        THEN <<[name |-> name,
                birthday |-> display_format(record.birthday[1]),
                days_until |-> DeltaDays(next_birthday.val, today)]>>
        ELSE <<>>

\* The loop over self.data.items(), in the order of the dict.
RECURSIVE upcoming_loop(_, _, _)
upcoming_loop(data, records, today) ==
    IF data = <<>> THEN <<>>
    ELSE upcoming_entry(Head(data).key, records[Head(data).rid], today)
           \o upcoming_loop(Tail(data), records, today)

\* Mutant of AddressBook_get_upcoming_birthdays: the entries sorted by
\* days_until.
RECURSIVE InsertByDays(_, _)
InsertByDays(entries, e) ==
    IF entries = <<>> THEN <<e>>
    ELSE IF e.days_until < Head(entries).days_until THEN <<e>> \o entries
    ELSE <<Head(entries)>> \o InsertByDays(Tail(entries), e)

RECURSIVE SortByDays(_)
SortByDays(entries) ==
    IF entries = <<>> THEN <<>>
    ELSE InsertByDays(SortByDays(SubSeq(entries, 1, Len(entries) - 1)),
                      entries[Len(entries)])

upcoming_sorted_by_days(data, records, today) ==
    SortByDays(upcoming_loop(data, records, today))

\* AddressBook.get_upcoming_birthdays, `today` being datetime.today().
AddressBook_get_upcoming_birthdays(data, records, today) ==
    upcoming_loop(data, records, today)

(***************************************************************************)
(* The commands of main.py                                                 *)
(***************************************************************************)

\* What running a command body gives: its outcome, and the heap and the book
\* as it left them.
Ran(res, records, data) ==
    [err |-> res.err, msg |-> res.msg, val |-> res.val,
     heap |-> records, book |-> data]

\* The wrapper input_error: an exception becomes the returned text.
input_error(res) ==
    IF res.err = "" THEN Ok(res.val) ELSE Ok(res.err \o ": " \o res.msg)

\* add_contact: a new Record is put in the book before its phone is added.
main_add_contact(args) ==
    IF Len(args) < 2
    THEN Ran(Raise("ValueError", "Please provide name and phone number."), heap, book)
    ELSE
    LET name == args[1]
        phone == args[2]
        found == AddressBook_find(book, name)
        created == Record(name)
    IN  IF found = 0 /\ created.err # "" THEN Ran(created, heap, book)
    ELSE
    LET records == IF found = 0 THEN Append(heap, created.val) ELSE heap
        record == IF found = 0 THEN Len(heap) + 1 ELSE found
        data == IF found = 0 THEN AddressBook_add_record(book, records, record)
                ELSE book
        message == IF found = 0 THEN "Contact added." ELSE "Contact updated."
        added == IF phone # <<>> THEN Record_add_phone(records[record], phone)
                 ELSE Return(records[record], None)
    IN  Ran(IF added.err = "" THEN Ok(message) ELSE Raise(added.err, added.msg),
            [records EXCEPT ![record] = added.self], data)

\* change_contact
main_change_contact(args) ==
    IF Len(args) < 3
    THEN Ran(Raise("ValueError", "Please provide name, old phone and new phone."),
             heap, book)
    ELSE
    LET name == args[1]
        old_phone == args[2]
        new_phone == args[3]
        record == AddressBook_find(book, name)
    IN  IF record = 0
        THEN Ran(Raise("ValueError", "Contact not found."), heap, book)
        ELSE LET edited == Record_edit_phone(heap[record], old_phone, new_phone)
             IN  Ran(IF edited.err = "" THEN Ok("Phone number changed.")
                     ELSE Raise(edited.err, edited.msg),
                     [heap EXCEPT ![record] = edited.self], book)

(***************************************************************************)
(* Operations as steps.  `last` holds the last operation: its name, its    *)
(* arguments, the exception it raised ("" for none) and what it returned;  *)
(* `prev` holds the dict as the operation found it.                        *)
(***************************************************************************)

Outcome(op, args, res) ==
    [op |-> op, args |-> args, err |-> res.err, ret |-> res.val]

RecordIds == 1..Len(heap)

\* Record(name), the new object kept by the caller.
NewRecord(name) ==
    LET rec == Record(name)
    IN  /\ heap' = IF rec.err = "" THEN Append(heap, rec.val) ELSE heap
        /\ last' = Outcome("Record", <<name>>,
                           IF rec.err = "" THEN Ok(Len(heap) + 1) ELSE rec)
        /\ prev' = book
        /\ UNCHANGED book

add_phone(r, phone) ==
    LET res == Record_add_phone(heap[r], phone)
    IN  /\ heap' = [heap EXCEPT ![r] = res.self]
        /\ last' = Outcome("add_phone", <<r, phone>>, res)
        /\ prev' = book
        /\ UNCHANGED book

add_birthday(r, birthday) ==
    LET res == Record_add_birthday(heap[r], birthday)
    IN  /\ heap' = [heap EXCEPT ![r] = res.self]
        /\ last' = Outcome("add_birthday", <<r, birthday>>, res)
        /\ prev' = book
        /\ UNCHANGED book

edit_phone(r, old_phone, new_phone) ==
    LET res == Record_edit_phone(heap[r], old_phone, new_phone)
    IN  /\ heap' = [heap EXCEPT ![r] = res.self]
        /\ last' = Outcome("edit_phone", <<r, old_phone, new_phone>>, res)
        /\ prev' = book
        /\ UNCHANGED book

remove_phone(r, phone) ==
    LET res == Record_remove_phone(heap[r], phone)
    IN  /\ heap' = [heap EXCEPT ![r] = res.self]
        /\ last' = Outcome("remove_phone", <<r, phone>>, res)
        /\ prev' = book
        /\ UNCHANGED book

add_record(r) ==
    /\ book' = AddressBook_add_record(book, heap, r)
    /\ last' = Outcome("add_record", <<r>>, Ok(None))
    /\ prev' = book
    /\ UNCHANGED heap

delete(name) ==
    /\ book' = AddressBook_delete(book, name)
    /\ last' = Outcome("delete", <<name>>, Ok(None))
    /\ prev' = book
    /\ UNCHANGED heap

get_upcoming_birthdays(today) ==
    /\ last' = Outcome("get_upcoming_birthdays", <<today>>,
                       Ok(AddressBook_get_upcoming_birthdays(book, heap, today)))
    /\ prev' = book
    /\ UNCHANGED <<heap, book>>

add_contact(args) ==
    LET ran == main_add_contact(args)
    IN  /\ heap' = ran.heap
        /\ book' = ran.book
        /\ last' = Outcome("add_contact", <<args>>, input_error(ran))
        /\ prev' = book

change_contact(args) ==
    LET ran == main_change_contact(args)
    IN  /\ heap' = ran.heap
        /\ book' = ran.book
        /\ last' = Outcome("change_contact", <<args>>, input_error(ran))
        /\ prev' = book

(***************************************************************************)
(* Inputs: the texts of the demonstration at the end of classes.py         *)
(***************************************************************************)

John == <<"J", "o", "h", "n">>

Jane == <<"J", "a", "n", "e">>

Phone1 == <<"1", "2", "3", "4", "5", "6", "7", "8", "9", "0">>

Phone2 == <<"5", "5", "5", "5", "5", "5", "5", "5", "5", "5">>

Phone3 == <<"1", "1", "1", "2", "2", "2", "3", "3", "3", "3">>

\* Phone1 as a user may type it into Record.add_phone, with blanks around it.
Phone1Padded == <<" ">> \o Phone1 \o <<" ">>

ShortPhone == <<"1", "2", "3">>

\* Ten characters that are digits for str.isdigit() and no decimal digits.
SuperscriptPhone == [i \in 1..PhoneLen |-> "^2"]

Birthday1 == <<"1", "9", "9", "0", "-", "0", "6", "-", "1", "5">>

Birthday2 == <<"1", "9", "8", "5", ".", "1", "2", ".", "2", "0">>

InvalidDate == <<"i", "n", "v", "a", "l", "i", "d", "-", "d", "a", "t", "e">>

Date(y, m, d) == [year |-> y, month |-> m, day |-> d, tick |-> 0]

\* The datetimes of the days first..last of a month, at every time of day.
Days(y, m, first, last_day) ==
    {[year |-> y, month |-> m, day |-> d, tick |-> t] :
        d \in first..last_day, t \in 0..(TicksPerDay - 1)}

\* The canonical texts of the birthdays first..last of a month, born in 2000.
Born(m, first, last_day) == {strftime_Ymd(Date(2000, m, d)) : d \in first..last_day}

(***************************************************************************)
(* SpecRecord: one Record and its phone and birthday methods               *)
(***************************************************************************)

RecordPhones == {Phone1, Phone1Padded, Phone2, Phone3, ShortPhone, SuperscriptPhone}

InitRecord ==
    /\ heap = <<Record(John).val>>
    /\ book = <<>>
    /\ last = Outcome("Record", <<John>>, Ok(1))
    /\ prev = <<>>

NextRecord ==
    \/ \E r \in RecordIds, phone \in RecordPhones :
           Len(heap[r].phones) < MaxPhones /\ add_phone(r, phone)
    \/ \E r \in RecordIds, old \in {Phone1, Phone2}, new \in {Phone3, ShortPhone} :
           edit_phone(r, old, new)
    \/ \E r \in RecordIds, phone \in {Phone1, Phone3} : remove_phone(r, phone)
    \/ \E r \in RecordIds, birthday \in {Birthday1, Birthday2, InvalidDate} :
           add_birthday(r, birthday)

SpecRecord == InitRecord /\ [][NextRecord]_vars

(***************************************************************************)
(* Spec: an AddressBook of Records with phones; the first Record made may  *)
(* be given a birthday                                                     *)
(***************************************************************************)

Init ==
    /\ heap = <<>>
    /\ book = <<>>
    /\ last = Outcome("AddressBook", <<>>, Ok(None))
    /\ prev = <<>>

Next ==
    \/ \E name \in {John, Jane} : Len(heap) < BookRecords /\ NewRecord(name)
    \/ \E r \in RecordIds :
           Len(heap[r].phones) < BookPhones /\ add_phone(r, Phone1)
    \/ \E r \in RecordIds \cap {1} : add_birthday(r, Birthday1)
    \/ \E r \in RecordIds : add_record(r)

Spec == Init /\ [][Next]_vars

(***************************************************************************)
(* SpecOrder: an AddressBook of Records with birthdays, and the query      *)
(***************************************************************************)

OrderToday == {Date(2024, 6, 10)}

NextOrder ==
    \/ \E name \in {John, Jane, <<" ">>} :
           Len(heap) < OrderRecords /\ NewRecord(name)
    \/ \E r \in RecordIds, birthday \in Born(6, 11, 12) :
           add_birthday(r, birthday)
    \/ \E r \in RecordIds : add_record(r)
    \/ \E name \in {John, Jane} : delete(name)
    \/ \E today \in OrderToday : get_upcoming_birthdays(today)

SpecOrder == Init /\ [][NextOrder]_vars

(***************************************************************************)
(* SpecSched: the query on a book of one contact, over the days around a   *)
(* weekend, a month end, a year end and the end of February                *)
(***************************************************************************)

SchedTodays ==
    Days(2024, 6, 10, 17) \cup Days(2024, 6, 26, 26) \cup Days(2024, 7, 1, 1)
      \cup Days(2023, 12, 28, 28) \cup Days(2024, 1, 1, 1)
      \cup Days(2025, 2, 26, 26) \cup Days(2025, 3, 3, 3)

SchedBirthdays ==
    Born(6, 8, 18) \cup Born(6, 29, 30) \cup Born(7, 1, 1)
      \cup Born(12, 30, 31) \cup Born(1, 1, 1)
      \cup Born(2, 28, 29) \cup Born(3, 1, 3)

InitSched ==
    /\ heap = <<Record(John).val>>
    /\ book = AddressBook_add_record(<<>>, heap, 1)
    /\ last = Outcome("add_record", <<1>>, Ok(None))
    /\ prev = <<>>

NextSched ==
    \/ \E birthday \in SchedBirthdays : add_birthday(1, birthday)
    \/ \E today \in SchedTodays : get_upcoming_birthdays(today)

SpecSched == InitSched /\ [][NextSched]_vars

(***************************************************************************)
(* SpecCli: the `add` and `change` commands on a book that starts empty.   *)
(* The arguments are the words of a line: no blanks, none empty.           *)
(***************************************************************************)

NextCli ==
    \/ \E args \in {<<>>} \cup {<<w>> : w \in {John}}
                     \cup ({John, Jane} \X {Phone1, Phone2, ShortPhone}) :
           /\ \A r \in RecordIds : Len(heap[r].phones) < MaxPhones
           /\ add_contact(args)
    \/ \E args \in {<<John>>} \cup ({John, Jane} \X {Phone1} \X {Phone3, ShortPhone}) :
           change_contact(args)

SpecCli == Init /\ [][NextCli]_vars

(***************************************************************************)
(* Claims about Record (SpecRecord)                                        *)
(***************************************************************************)

TenDecimalDigits(s) ==
    Len(s) = 10 /\ \A i \in 1..Len(s) : s[i] \in {"0", "1", "2", "3", "4", "5", "6", "7", "8", "9"}

\* C1: after any sequence of add_phone, edit_phone and remove_phone calls,
\* every phone stored in a record is a string of exactly 10 decimal digits.
C1_PhonesAreTenDigits ==
    \A r \in RecordIds :
        \A i \in 1..Len(heap[r].phones) : TenDecimalDigits(heap[r].phones[i])

\* C4: an add_birthday, add_phone or edit_phone that raises leaves the
\* record as it was: the previous birthday and every phone of the list.
C4_FailedOperationChangesNothing ==
    [][(last'.op \in {"add_birthday", "add_phone", "edit_phone"} /\ last'.err # "")
         => (heap' = heap /\ book' = book)]_vars

\* A failed add_birthday on a record that has a birthday and a phone.
C4_Witness ==
    /\ last.op = "add_birthday"
    /\ last.err = "ValueError"
    /\ heap[last.args[1]].birthday = <<Birthday(Birthday1).val>>
    /\ heap[last.args[1]].phones # <<>>

\* C6: edit_phone(old, new) on a list that contains old puts new in the place
\* of the first phone equal to old and leaves the length and every other
\* phone as they were; when no phone equals old it raises.
C6_EditPhoneReplacesFirst ==
    [][last'.op = "edit_phone" =>
         LET r == last'.args[1]
             old == last'.args[2]
             new == last'.args[3]
             before == heap[r].phones
             after == heap'[r].phones
         IN  IF \E i \in 1..Len(before) : before[i] = old
             THEN /\ last'.err = ""
                  /\ Len(after) = Len(before)
                  /\ \E k \in 1..Len(before) :
                        /\ before[k] = old
                        /\ \A j \in 1..(k - 1) : before[j] # old
                        /\ after[k] = new
                        /\ \A j \in 1..Len(before) : j # k => after[j] = before[j]
             ELSE last'.err = "ValueError"]_vars

\* Of two phones equal to old, the first has been replaced.
C6_Witness ==
    /\ last.op = "edit_phone"
    /\ last.err = ""
    /\ last.args = <<1, Phone1, Phone3>>
    /\ heap[1].phones = <<Phone3, Phone1>>

(***************************************************************************)
(* Claims about AddressBook (Spec, SpecOrder)                              *)
(***************************************************************************)

\* C5: add_record of a record whose name is already a key keeps the keys,
\* makes find(name) the new record with its own phones and birthday, leaves
\* the old record unreachable through the book, and leaves the entries under
\* the other names as they were.
C5_AddRecordReplaces ==
    [][(last'.op = "add_record"
          /\ \E i \in 1..Len(book) : book[i].key = heap[last'.args[1]].name)
         => LET r == last'.args[1]
                name == heap[r].name
                old == book[CHOOSE i \in 1..Len(book) : book[i].key = name].rid
            IN  /\ Len(book') = Len(book)
                /\ \A i \in 1..Len(book) : book'[i].key = book[i].key
                /\ AddressBook_find(book', name) = r
                /\ heap' = heap
                /\ old # r => \A i \in 1..Len(book') : book'[i].rid # old
                /\ \A i \in 1..Len(book) :
                       book[i].key # name => book'[i] = book[i]]_vars

\* A record without phones and birthday has replaced a record of the same
\* name with a phone and a birthday, in a book that holds another name too.
C5_Witness ==
    /\ last.op = "add_record"
    /\ Len(book) = 2
    /\ LET r == last.args[1]
           name == heap[r].name
       IN  /\ \E i \in 1..Len(prev) :
                  /\ prev[i].key = name
                  /\ prev[i].rid # r
                  /\ heap[prev[i].rid].phones # <<>>
                  /\ heap[prev[i].rid].birthday # <<>>
           /\ heap[r].phones = <<>>
           /\ heap[r].birthday = <<>>
           /\ AddressBook_find(book, name) = r

\* C7: the entries get_upcoming_birthdays returns are in the order of the
\* keys of the dict, whatever their dates.
C7_UpcomingInInsertionOrder ==
    last.op = "get_upcoming_birthdays" =>
        \A i, j \in 1..Len(last.ret) :
            i < j =>
                \E a, b \in 1..Len(book) :
                    /\ a < b
                    /\ book[a].key = last.ret[i].name
                    /\ book[b].key = last.ret[j].name

\* Two entries, the later birthday first.
C7_Witness ==
    /\ last.op = "get_upcoming_birthdays"
    /\ Len(last.ret) = 2
    /\ last.ret[1].days_until > last.ret[2].days_until

(***************************************************************************)
(* Claims about the commands (SpecCli)                                     *)
(***************************************************************************)

\* The names of the book, each with the phones of its record.
Contacts(data, records) ==
    [i \in 1..Len(data) |->
        [name |-> data[i].key, phones |-> records[data[i].rid].phones]]

\* C9: an add_contact that returns an error message leaves the book with the
\* same names and the same phones.
C9_RejectedAddChangesNothing ==
    [][(last'.op = "add_contact"
          /\ last'.ret \notin {"Contact added.", "Contact updated."})
         => Contacts(book', heap') = Contacts(book, heap)]_vars

(***************************************************************************)
(* Claims about the query (SpecSched).  The calendar of the claims works   *)
(* on days, without the time of day.                                       *)
(***************************************************************************)

Asked == last.op = "get_upcoming_birthdays"

Today == last.args[1]

\* The contacts that have a birthday, as positions of the book.
WithBirthday == {i \in 1..Len(book) : heap[book[i].rid].birthday # <<>>}

MonthOf(i) == ToInt(SubSeq(heap[book[i].rid].birthday[1], 6, 7))

DayOf(i) == ToInt(SubSeq(heap[book[i].rid].birthday[1], 9, 10))

\* The contact's month and day exist in today's year and in the next one.
HasNextBirthday(i) ==
    /\ ValidDate(Today.year, MonthOf(i), DayOf(i))
    /\ ValidDate(Today.year + 1, MonthOf(i), DayOf(i))

\* The next birthday: this year's, or next year's when this year's day is
\* before today's day.
NextBirthday(i) ==
    IF toordinal(Date(Today.year, MonthOf(i), DayOf(i))) < toordinal(Today)
    THEN Date(Today.year + 1, MonthOf(i), DayOf(i))
    ELSE Date(Today.year, MonthOf(i), DayOf(i))

\* Calendar days from today to the next birthday, and to the Monday after it.
DaysToBirthday(i) == toordinal(NextBirthday(i)) - toordinal(Today)

DaysToMonday(i) == DaysToBirthday(i) + (7 - weekday(NextBirthday(i)))

EntriesOf(i) == {k \in 1..Len(last.ret) : last.ret[k].name = book[i].key}

\* C2: a record whose next birthday is on a weekday d days after today is
\* in the result iff 0 <= d <= 7, with days_until = d.
C2_WeekdayBirthdayInWindow ==
    Asked =>
        \A i \in WithBirthday :
            (HasNextBirthday(i) /\ weekday(NextBirthday(i)) \in 0..4) =>
                /\ (EntriesOf(i) # {}) <=> (DaysToBirthday(i) \in 0..7)
                /\ \A k \in EntriesOf(i) : last.ret[k].days_until = DaysToBirthday(i)

\* C3: a record whose next birthday is on a Saturday or Sunday is, when the
\* Monday after it is 0 to 7 days after today, in the result with the days
\* to that Monday, also across the end of a month or a year.
C3_WeekendBirthdayOnMonday ==
    Asked =>
        \A i \in WithBirthday :
            (HasNextBirthday(i) /\ weekday(NextBirthday(i)) \in {5, 6}
               /\ DaysToMonday(i) \in 0..7) =>
                /\ EntriesOf(i) # {}
                /\ \A k \in EntriesOf(i) : last.ret[k].days_until = DaysToMonday(i)

\* C8: no record with a stored birthday that is a calendar date is skipped
\* by an error: its next birthday is computed and tested against the window.
C8_ValidBirthdayNeverSkipped ==
    Asked =>
        \A i \in WithBirthday :
            strptime(heap[book[i].rid].birthday[1], "%Y-%m-%d").err = "" =>
                /\ next_birthday_of(heap[book[i].rid].birthday[1], Today).err = ""
                /\ (EntriesOf(i) # {}) <=>
                       in_next_week(DeltaDays(
                           next_birthday_of(heap[book[i].rid].birthday[1], Today).val,
                           Today))

\* Today is a Monday and the contact's birthday was the Saturday or the
\* Sunday just before it, in the same year.
WeekendJustPassed(i) ==
    /\ weekday(Today) = 0
    /\ ValidDate(Today.year, MonthOf(i), DayOf(i))
    /\ toordinal(Today) - toordinal(Date(Today.year, MonthOf(i), DayOf(i))) \in {1, 2}

\* C10 as claimed: on the Monday after a weekend birthday the contact is in
\* the result with days_until = 0.
C10_IncludedOnMonday ==
    Asked =>
        \A i \in WithBirthday :
            WeekendJustPassed(i) =>
                /\ EntriesOf(i) # {}
                /\ \A k \in EntriesOf(i) : last.ret[k].days_until = 0

\* C10 as amended: on the Monday after a weekend birthday the contact is not
\* in the result; the birthday has passed and counts for the next year.
C10_NotIncludedOnMonday ==
    Asked => \A i \in WithBirthday : WeekendJustPassed(i) => EntriesOf(i) = {}

\* Asked at midnight of Monday 2024-06-17 about a birthday of Saturday 15 June.
C10_Witness ==
    /\ Asked
    /\ Today = Date(2024, 6, 17)
    /\ WithBirthday = {1}
    /\ MonthOf(1) = 6
    /\ DayOf(1) = 15
    /\ WeekendJustPassed(1)
    /\ last.ret = <<>>

====
